---- MODULE Spec2Model ----
(***************************************************************************)
(* Oxygen Station Manager of the hospital-management backend.              *)
(*                                                                         *)
(* The repository serves the oxygen_stations table of one database         *)
(* (DB_NAME healthcare_db) from two applications:                          *)
(*   - the Flask application (backend/app.py) through OxygenService        *)
(*     (backend/services/oxygen_service.py): create_station,               *)
(*     update_station, delete_station, create_reading and the reads;       *)
(*   - the FastAPI application (backend/main.py): update_oxygen_level,     *)
(*     the direct level update with the threshold-derived status.          *)
(* The model keeps one table of stations whose rows carry the columns both *)
(* applications use (current_level of the service is current_level_liters  *)
(* of main.py), and one table of readings with the foreign key             *)
(* ON DELETE CASCADE of scripts/init_database.py.                          *)
(*                                                                         *)
(* Every SQL statement is one atomic step: config/database.py commits      *)
(* after each execute_insert / execute_update, and main.py opens its       *)
(* pool with autocommit.  A handler that issues two statements is two      *)
(* steps, and the steps of concurrent handlers interleave.  The Flask      *)
(* server handles requests on threads (process 1..NumWorkers); uvicorn     *)
(* runs main.py's handlers one at a time on its event loop (process 0).    *)
(*                                                                         *)
(* Specifications:                                                         *)
(*   Spec           the writing handlers of both applications, interleaved *)
(*   SpecLevel      main.py's level update over every ratio and threshold  *)
(*   SpecStore      stations and readings created, deleted and fetched     *)
(*   SpecRoundTrip  create_station and find_station_by_id over the values  *)
(*                  the DECIMAL(8,2) columns round                         *)
(*   SpecQuery      the reads of OxygenService over tables of sample rows  *)
(*   SpecPages      a client listing the stations page by page             *)
(*   SpecPatch      update_station over partial patches                    *)
(*   SpecService    the calls of DatabaseService: initialize, shutdown     *)
(*   SpecRoutes     the routes of app.py with malformed bodies and the     *)
(*                  failures of every statement                            *)
(***************************************************************************)
EXTENDS Integers, FiniteSets, Sequences, TLC

\* ------------------------------------------------------------------ bounds
MaxStations == 2
MaxReadings == 2
NumWorkers == 2
MaxRequests == 4
MaxCalls == 4

\* ------------------------------------------------------------------ inputs
FastApi == 0
Workers == 1..NumWorkers
Procs == {FastApi} \cup Workers
\* station ids a request may name: the ids ever assigned and one that is not
RequestIds == 1..(MaxStations + 1)
CapacityInputs == {-10, 500}
CreateLevelInputs == {500}
StatusInputs == {"normal"}
\* a VARCHAR value is the sequence of its characters
NameInputs == {<<"O", "2">>}
LocationInputs == {<<"I", "C", "U">>}
\* flow_rate in thousandths, so that a value of three decimals can be submitted
FlowRateInputs == {4500}
ReadingLevelInputs == {60, 140, 600}
DirectLevelInputs == {-1, 140, 500, 600}
PatchCapacityInputs == {60}
PatchLevelInputs == {600}
\* <<alert_threshold_low, alert_threshold_critical>>, percentages
ThresholdPairs == {<<30, 15>>}
\* the stations and levels the status derivation is exercised on (SpecLevel):
\* with capacity 20 one liter is 5 percent, so every threshold is hit exactly
LevelCaseCapacities == {20, 500}
LevelCaseThresholds == {<<30, 15>>, <<20, 10>>, <<10, 30>>, <<0, 0>>}
LevelCaseLevels == (-1..21) \cup {60, 75, 140, 150, 500}
\* an Optional field of a request: None, or Some(v)
None == <<>>
Some(v) == <<v>>
\* the bodies POST /api/oxygen/stations is called with (CreateOxygenStation)
StationDataOver(names, locations, capacities, levels, flows, statuses, thresholds) ==
    {[station_name |-> n, location |-> loc, capacity_liters |-> cap,
      current_level |-> lvl, flow_rate |-> fl, status |-> st,
      alert_threshold_low |-> thr[1], alert_threshold_critical |-> thr[2]] :
        n \in names, loc \in locations, cap \in capacities, lvl \in levels,
        fl \in flows, st \in statuses, thr \in thresholds}
StationData ==
    StationDataOver(NameInputs, LocationInputs, CapacityInputs, CreateLevelInputs,
                    FlowRateInputs, StatusInputs, ThresholdPairs)

\* ------------------------------------------------------------------- state
VARIABLES
    stations,        \* oxygen_stations: station_id -> row
    readings,        \* oxygen_readings: reading_id -> row
    nextStationId,   \* AUTO_INCREMENT of oxygen_stations.station_id
    nextReadingId,   \* AUTO_INCREMENT of oxygen_readings.reading_id
    pc,              \* per process: the statement its handler executes next
    req,             \* per process: the request its handler is serving
    result,          \* the response of the handler that returned last
    served,          \* the number of writing requests accepted so far
    tiebreak,        \* per LIMIT/OFFSET: the server's order of rows of equal sort key
    fetched,         \* the pages a client walking through a listing has received
    pool,            \* db_manager.pool is a connection pool (FALSE: it is None)
    initialized,     \* DatabaseService._initialized
    calls            \* the calls made on DatabaseService, each with what it returned

vars == <<stations, readings, nextStationId, nextReadingId, pc, req, result, served,
          tiebreak, fetched, pool, initialized, calls>>

\* what no handler of the model writes: the server's plan and a client's pages
paging == <<tiebreak, fetched>>

\* what no handler of a request writes: the state of DatabaseService
service == <<pool, initialized, calls>>

\* the application while it serves requests: app.py starts the server only
\* after DatabaseService.initialize() returned True, and exits on shutdown()
Serving ==
    /\ pool = TRUE
    /\ initialized = TRUE
    /\ calls = <<>>

NoReq == [station_id |-> 0, level |-> 0, reading_id |-> 0]

\* The response of a handler. code is the HTTP status of the route; the service
\* methods no route of app.py calls (update_station, delete_station) return a
\* DatabaseResult only, and code is then 0.
\* args are the arguments of a read and data is the payload (DatabaseResult.data).
NoData == <<>>

ResponseWith(op, args, success, code, error, data) ==
    [op |-> op, args |-> args, success |-> success, code |-> code, error |-> error,
     data |-> data]

Response(op, success, code, error) ==
    ResponseWith(op, <<>>, success, code, error, NoData)

NoResult == Response("none", TRUE, 0, "")

EmptyTable == [i \in {} |-> 0]

NoTiebreak == EmptyTable
NoWalk == <<>>

\* a request is served by the idle Flask thread of least index
Serves(w) ==
    /\ served < MaxRequests
    /\ served' = served + 1
    /\ w \in Workers
    /\ pc[w] = "idle"
    /\ \A v \in Workers : v < w => pc[v] # "idle"

\* a read is served by the idle Flask thread of least index; it leaves served
\* alone, as it adds nothing to what is stored
ServesRead(w) ==
    /\ w \in Workers
    /\ pc[w] = "idle"
    /\ \A v \in Workers : v < w => pc[v] # "idle"
    /\ UNCHANGED served

\* ------------------------------------------------------------ SQL helpers
\* RatioAtMost with the comparison made strict
RatioBelow(level, capacity, threshold) ==
    IF capacity = 0 THEN FALSE
    ELSE IF capacity > 0 THEN level * 100 < threshold * capacity
    ELSE level * 100 > threshold * capacity

\* (level / capacity_liters) * 100 <= threshold, as MySQL evaluates it:
\* division by zero yields NULL and the comparison is then not true.
RatioAtMost(level, capacity, threshold) ==
    IF capacity = 0 THEN FALSE
    ELSE IF capacity > 0 THEN level * 100 <= threshold * capacity
    ELSE level * 100 >= threshold * capacity

\* the CASE expression of update_oxygen_level
DeriveStatus(level, capacity, low, critical) ==
    IF RatioAtMost(level, capacity, critical) THEN "critical"
    ELSE IF RatioAtMost(level, capacity, low) THEN "low"
    ELSE "normal"

\* a foreign key without ON DELETE CASCADE that is not enforced: the readings stay
NoCascade(rs, sid) == rs

\* ON DELETE CASCADE: the readings that survive the deletion of station sid
CascadeDelete(rs, sid) ==
    [r \in {x \in DOMAIN rs : rs[x].station_id # sid} |-> rs[r]]

\* ------------------------------------------------------------------- Init
\* the tables as scripts/init_database.py create them, no request in flight
Init ==
    /\ stations = EmptyTable
    /\ readings = EmptyTable
    /\ nextStationId = 1
    /\ nextReadingId = 1
    /\ pc = [p \in Procs |-> "idle"]
    /\ req = [p \in Procs |-> NoReq]
    /\ result = NoResult
    /\ served = 0
    /\ Serving
    /\ tiebreak = NoTiebreak
    /\ fetched = NoWalk

\* --------------------------------------------------- OxygenService (Flask)
\* a DECIMAL(8,2) column that cuts the third decimal off instead of rounding
Decimal2Truncated(x) ==
    IF x >= 0 THEN (x \div 10) * 10 ELSE -((-x \div 10) * 10)

\* What a DECIMAL(8,2) column stores of a value given in thousandths: MySQL
\* rounds an exact-value literal to the column's scale, half away from zero.
\* (capacity_liters and current_level, DECIMAL(10,2), are whole liters in the
\* model and are stored as they are.)
Decimal2(x) ==
    IF x >= 0 THEN ((x + 5) \div 10) * 10 ELSE -(((-x + 5) \div 10) * 10)

\* the row the INSERT of create_station stores for the body data
StoredRow(data) ==
    [data EXCEPT !.flow_rate = Decimal2(data.flow_rate)]

InsertStation(sts, id, data) ==
    [i \in DOMAIN sts \cup {id} |-> IF i = id THEN StoredRow(data) ELSE sts[i]]

\* SELECT * FROM oxygen_stations WHERE station_id = id, as OxygenStation(**row)
StationOf(sts, id) == ("station_id" :> id) @@ sts[id]

\* create_station behind POST /api/oxygen/stations: the INSERT takes the body's
\* fields as they come (no field is validated), the row is fetched back and the
\* route answers 201. A storage error is caught and answered 400.
create_station(w, data) ==
    /\ Serves(w)
    /\ nextStationId <= MaxStations
    /\ \/ /\ stations' = InsertStation(stations, nextStationId, data)
          /\ nextStationId' = nextStationId + 1
          /\ result' = ResponseWith("create_station", <<>>, TRUE, 201, "",
                                    StationOf(stations', nextStationId))
       \/ /\ UNCHANGED <<stations, nextStationId>>
          /\ result' = Response("create_station", FALSE, 400, "storage")
    /\ UNCHANGED <<readings, nextReadingId, pc, req, paging, service>>

\* a fetch that brings the station's status up to date with its level
find_station_by_id_refreshing(w, sid) ==
    /\ ServesRead(w)
    /\ result' = IF sid \in DOMAIN stations
                 THEN ResponseWith("find_station_by_id", <<sid>>, TRUE, 200, "",
                                   StationOf(stations, sid))
                 ELSE ResponseWith("find_station_by_id", <<sid>>, FALSE, 404,
                                   "Oxygen station not found", NoData)
    /\ stations' = IF sid \in DOMAIN stations
                   THEN [stations EXCEPT ![sid].status =
                            DeriveStatus(stations[sid].current_level,
                                         stations[sid].capacity_liters,
                                         stations[sid].alert_threshold_low,
                                         stations[sid].alert_threshold_critical)]
                   ELSE stations
    /\ UNCHANGED <<readings, nextStationId, nextReadingId, pc, req, paging, service>>

\* find_station_by_id behind GET /api/oxygen/stations/<id>: one SELECT; no row
\* is answered 404 "Oxygen station not found"
find_station_by_id(w, sid) ==
    /\ ServesRead(w)
    /\ result' = IF sid \in DOMAIN stations
                 THEN ResponseWith("find_station_by_id", <<sid>>, TRUE, 200, "",
                                   StationOf(stations, sid))
                 ELSE ResponseWith("find_station_by_id", <<sid>>, FALSE, 404,
                                   "Oxygen station not found", NoData)
    /\ UNCHANGED <<stations, readings, nextStationId, nextReadingId, pc, req, paging, service>>

\* a SET list built from the fields that are true, which leaves out a 0
ApplyPatchTruthy(row, patch) ==
    [row EXCEPT
        !.capacity_liters = IF patch.capacity_liters \in {None, Some(0)} THEN @
                            ELSE patch.capacity_liters[1],
        !.current_level = IF patch.current_level \in {None, Some(0)} THEN @
                          ELSE patch.current_level[1]]

\* the SET list update_station builds: one assignment per non-None field
ApplyPatch(row, patch) ==
    [row EXCEPT
        !.capacity_liters = IF patch.capacity_liters = None THEN @ ELSE patch.capacity_liters[1],
        !.current_level = IF patch.current_level = None THEN @ ELSE patch.current_level[1]]

PatchIsEmpty(patch) ==
    /\ patch.capacity_liters = None
    /\ patch.current_level = None

\* update_station: one UPDATE of the fields that are not None
update_station(w, sid, patch) ==
    /\ Serves(w)
    /\ IF PatchIsEmpty(patch)
       THEN /\ result' = Response("update_station", FALSE, 0, "No fields to update")
            /\ UNCHANGED stations
       ELSE IF sid \notin DOMAIN stations
       THEN /\ result' = Response("update_station", FALSE, 0, "not found")
            /\ UNCHANGED stations
       ELSE \/ /\ stations' = [stations EXCEPT ![sid] = ApplyPatch(@, patch)]
               /\ result' = Response("update_station", TRUE, 0, "")
            \/ /\ UNCHANGED stations
               /\ result' = Response("update_station", FALSE, 0, "storage")
    /\ UNCHANGED <<readings, nextStationId, nextReadingId, pc, req, paging, service>>

\* delete_station whose DELETE has lost its WHERE clause
delete_station_unrestricted(w, sid) ==
    /\ Serves(w)
    /\ IF sid \notin DOMAIN stations
       THEN /\ result' = Response("delete_station", FALSE, 0, "not found")
            /\ UNCHANGED <<stations, readings>>
       ELSE /\ stations' = EmptyTable
            /\ readings' = EmptyTable
            /\ result' = Response("delete_station", TRUE, 0, "")
    /\ UNCHANGED <<nextStationId, nextReadingId, pc, req, paging, service>>

\* delete_station: one DELETE; the foreign key removes the station's readings
delete_station(w, sid) ==
    /\ Serves(w)
    /\ IF sid \notin DOMAIN stations
       THEN /\ result' = Response("delete_station", FALSE, 0, "not found")
            /\ UNCHANGED <<stations, readings>>
       ELSE /\ stations' = [i \in DOMAIN stations \ {sid} |-> stations[i]]
            /\ readings' = CascadeDelete(readings, sid)
            /\ result' = Response("delete_station", TRUE, 0, "")
    /\ UNCHANGED <<nextStationId, nextReadingId, pc, req, paging, service>>

\* an INSERT that replaces the station's earlier readings by the new one
InsertReadingLatest(rs, id, sid, lvl) ==
    [r \in {x \in DOMAIN rs : rs[x].station_id # sid} \cup {id} |->
        IF r = id THEN [station_id |-> sid, level_liters |-> lvl] ELSE rs[r]]

InsertReading(rs, id, sid, lvl) ==
    [r \in DOMAIN rs \cup {id} |->
        IF r = id THEN [station_id |-> sid, level_liters |-> lvl] ELSE rs[r]]

\* create_reading that checks the level against [0, capacity] before its INSERT
create_reading_insert_validating(w, sid, lvl) ==
    /\ Serves(w)
    /\ nextReadingId <= MaxReadings
    /\ \/ /\ sid \in DOMAIN stations
          /\ 0 <= lvl /\ lvl <= stations[sid].capacity_liters
          /\ readings' = InsertReading(readings, nextReadingId, sid, lvl)
          /\ nextReadingId' = nextReadingId + 1
          /\ pc' = [pc EXCEPT ![w] = "create_reading_update"]
          /\ req' = [req EXCEPT ![w] = [station_id |-> sid, level |-> lvl,
                                        reading_id |-> nextReadingId]]
          /\ UNCHANGED result
       \/ /\ result' = Response("create_reading", FALSE, 400,
                                IF sid \in DOMAIN stations THEN "level out of range"
                                ELSE "foreign key")
          /\ UNCHANGED <<readings, nextReadingId, pc, req>>
    /\ UNCHANGED <<stations, nextStationId, paging, service>>

\* create_reading on a readings table without its foreign key: the INSERT
\* stores a row for any station_id
create_reading_insert_unreferenced(w, sid, lvl) ==
    /\ Serves(w)
    /\ nextReadingId <= MaxReadings
    /\ \/ /\ readings' = InsertReading(readings, nextReadingId, sid, lvl)
          /\ nextReadingId' = nextReadingId + 1
          /\ pc' = [pc EXCEPT ![w] = "create_reading_update"]
          /\ req' = [req EXCEPT ![w] = [station_id |-> sid, level |-> lvl,
                                        reading_id |-> nextReadingId]]
          /\ UNCHANGED result
       \/ /\ result' = Response("create_reading", FALSE, 400, "storage")
          /\ UNCHANGED <<readings, nextReadingId, pc, req>>
    /\ UNCHANGED <<stations, nextStationId, paging, service>>

\* create_reading, first statement: INSERT INTO oxygen_readings, committed by
\* execute_insert. The foreign key refuses a station_id that names no station;
\* that error, like any storage error, is caught and the route answers 400.
create_reading_insert(w, sid, lvl) ==
    /\ Serves(w)
    /\ nextReadingId <= MaxReadings
    /\ \/ /\ sid \in DOMAIN stations
          /\ readings' = InsertReading(readings, nextReadingId, sid, lvl)
          /\ nextReadingId' = nextReadingId + 1
          /\ pc' = [pc EXCEPT ![w] = "create_reading_update"]
          /\ req' = [req EXCEPT ![w] = [station_id |-> sid, level |-> lvl,
                                        reading_id |-> nextReadingId]]
          /\ UNCHANGED result
       \/ /\ result' = Response("create_reading", FALSE, 400,
                                IF sid \in DOMAIN stations THEN "storage" ELSE "foreign key")
          /\ UNCHANGED <<readings, nextReadingId, pc, req>>
    /\ UNCHANGED <<stations, nextStationId, paging, service>>

\* SetLevel that, like the direct update, refuses a level above the capacity
SetLevelWithinCapacity(sts, sid, lvl) ==
    IF sid \in DOMAIN sts /\ lvl <= sts[sid].capacity_liters
    THEN [sts EXCEPT ![sid].current_level = lvl]
    ELSE sts

\* an UPDATE that writes the level of the station's reading of greatest
\* reading_id, whichever request issues it
SetLevelOfLatestReading(sts, sid, lvl) ==
    LET own == {r \in DOMAIN readings : readings[r].station_id = sid}
        latest == CHOOSE r \in own : \A q \in own : q <= r
    IN  IF sid \in DOMAIN sts
        THEN [sts EXCEPT ![sid].current_level =
                 IF own = {} THEN lvl ELSE readings[latest].level_liters]
        ELSE sts

\* an UPDATE of current_level that has lost its WHERE clause
SetLevelEverywhere(sts, sid, lvl) ==
    [i \in DOMAIN sts |-> [sts[i] EXCEPT !.current_level = lvl]]

SetLevel(sts, sid, lvl) ==
    IF sid \in DOMAIN sts THEN [sts EXCEPT ![sid].current_level = lvl] ELSE sts

\* create_reading, second statement: UPDATE oxygen_stations SET current_level,
\* committed by execute_update; the number of rows it changed is not looked at.
\* A storage error here is answered 400 with the reading already committed.
create_reading_update(w) ==
    /\ w \in Workers
    /\ pc[w] = "create_reading_update"
    /\ UNCHANGED served
    /\ \/ /\ stations' = SetLevel(stations, req[w].station_id, req[w].level)
          /\ result' = Response("create_reading", TRUE, 201, "")
       \/ /\ UNCHANGED stations
          /\ result' = Response("create_reading", FALSE, 400, "storage")
    /\ pc' = [pc EXCEPT ![w] = "idle"]
    /\ req' = [req EXCEPT ![w] = NoReq]
    /\ UNCHANGED <<readings, nextStationId, nextReadingId, paging, service>>

\* ------------------------------------------------- OxygenService, the reads
\* utf8mb4_unicode_ci: the weight a character is compared and sorted by; the
\* letters of either case weigh the same. (The characters the inputs use.)
Weight(c) ==
    CASE c \in {"2"} -> 1
      [] c \in {"c", "C"} -> 2
      [] c \in {"e", "E"} -> 3
      [] c \in {"i", "I"} -> 4
      [] c \in {"o", "O"} -> 5
      [] c \in {"r", "R"} -> 6
      [] c \in {"u", "U"} -> 7
      [] OTHER -> 0

Weights(str) == [k \in DOMAIN str |-> Weight(str[k])]

\* str LIKE pat: % stands for any run of characters, _ for any one character
RECURSIVE Like(_, _)
Like(str, pat) ==
    IF pat = <<>> THEN str = <<>>
    ELSE IF Head(pat) = "%"
    THEN Like(str, Tail(pat)) \/ (str # <<>> /\ Like(Tail(str), pat))
    ELSE /\ str # <<>>
         /\ Head(pat) = "_" \/ Weight(Head(pat)) = Weight(Head(str))
         /\ Like(Tail(str), Tail(pat))

\* (current_level / capacity_liters) < percent / 100, as MySQL evaluates it:
\* division by zero yields NULL and the comparison is then not true.
LevelRatioBelow(level, capacity, percent) ==
    IF capacity = 0 THEN FALSE
    ELSE IF capacity > 0 THEN level * 100 < percent * capacity
    ELSE level * 100 > percent * capacity

\* the conditions find_all_stations appends: a filter field is tested by its
\* truth value, so None, the empty string and the number 0 add no condition
StatusApplied(filters) == filters.status # None /\ filters.status[1] # ""
LocationApplied(filters) == filters.location # None /\ filters.location[1] # <<>>
ThresholdApplied(filters) ==
    filters.low_level_threshold # None /\ filters.low_level_threshold[1] # 0

\* the rows the WHERE clause of find_all_stations selects
WhereStations(sts, filters) ==
    {i \in DOMAIN sts :
        /\ StatusApplied(filters) => sts[i].status = filters.status[1]
        /\ LocationApplied(filters) =>
               Like(sts[i].location, <<"%">> \o filters.location[1] \o <<"%">>)
        /\ ThresholdApplied(filters) =>
               LevelRatioBelow(sts[i].current_level, sts[i].capacity_liters,
                               filters.low_level_threshold[1])}

\* the rows WHERE station_id = %s of get_readings_for_station selects
WhereReadings(rs, sid) == {r \in DOMAIN rs : rs[r].station_id = sid}

\* a < b for two sort keys, each a sequence of numbers
RECURSIVE LexLess(_, _)
LexLess(a, b) ==
    IF a = <<>> THEN b # <<>>
    ELSE IF b = <<>> THEN FALSE
    ELSE \/ Head(a) < Head(b)
         \/ Head(a) = Head(b) /\ LexLess(Tail(a), Tail(b))

\* ORDER BY {sort_by} {sort_order}: both strings are pasted into the statement.
\* What the server sorts by: a column of the table, or the expression the
\* caller wrote (one constant for every row); a name that is no column and no
\* expression is an error.
StationColumns ==
    {"station_id", "station_name", "location", "capacity_liters", "current_level",
     "flow_rate", "status", "alert_threshold_low", "alert_threshold_critical"}
ReadingColumns == {"reading_id", "station_id", "level_liters"}
SortExpressions == {"(SELECT 1)"}
SortDirections == {"ASC", "DESC", "ASC, (SELECT 1)"}

SortKey(row, id, idColumn, sort_by) ==
    IF sort_by = idColumn THEN <<id>>
    ELSE IF sort_by \in SortExpressions THEN <<>>
    ELSE IF sort_by \in {"station_name", "location"} THEN Weights(row[sort_by])
    ELSE <<row[sort_by]>>

Descending(sort_order) == sort_order = "DESC"

Position(order, id) == CHOOSE k \in DOMAIN order : order[k] = id

\* The rows ids of table, sorted: by the key in the direction asked for, and
\* rows of equal key in the order the server's plan leaves them in. MySQL
\* promises no order among such rows, and the plan of a statement with LIMIT
\* depends on how many rows it is to produce (LIMIT + OFFSET).
Sorted(tbl, ids, idColumn, sort_by, sort_order, order) ==
    LET key(i) == SortKey(tbl[i], i, idColumn, sort_by)
        before(i, j) ==
            \/ IF Descending(sort_order) THEN LexLess(key(j), key(i))
                                         ELSE LexLess(key(i), key(j))
            \/ key(i) = key(j) /\ Position(order, i) < Position(order, j)
    IN  CHOOSE s \in [1..Cardinality(ids) -> ids] :
            \A a, b \in DOMAIN s : a < b => before(s[a], s[b])

\* LIMIT limit OFFSET offset of a sorted sequence of rows
LimitOffset(s, limit, offset) ==
    SubSeq(s, offset + 1, IF offset + limit < Len(s) THEN offset + limit ELSE Len(s))

\* total_pages that counts the full pages only
TotalPagesFloor(total, limit) == total \div limit

\* total_pages = (total + limit - 1) // limit
TotalPages(total, limit) == (total + limit - 1) \div limit

\* The statement is refused by the server: sort_by is no column and no
\* expression, sort_order no direction, or LIMIT or OFFSET is negative.
StatementRefused(columns, pagination) ==
    \/ pagination.sort_by \notin columns \cup SortExpressions
    \/ pagination.sort_order \notin SortDirections
    \/ pagination.limit < 0
    \/ (pagination.page - 1) * pagination.limit < 0

\* PaginatedResult. order_by is the ORDER BY clause of the statement that
\* produced data; it is no field of the result, it is kept to say what the
\* server was given to execute.
Paginated(rows, total, pagination) ==
    [data |-> rows, total |-> total, page |-> pagination.page,
     limit |-> pagination.limit,
     total_pages |-> TotalPages(total, pagination.limit),
     order_by |-> <<pagination.sort_by, pagination.sort_order>>]

\* What a paginated read answers over the rows ids of table: the count, then
\* the page. The count and the page are taken from the same rows (no write
\* comes between the two statements in the specifications that use the reads).
\* limit = 0 returns no row and the division for total_pages raises.
PaginatedRead(op, args, tbl, ids, idColumn, pagination) ==
    IF StatementRefused(IF idColumn = "station_id" THEN StationColumns
                        ELSE ReadingColumns, pagination)
    THEN ResponseWith(op, args, FALSE, 400, "statement", NoData)
    ELSE IF pagination.limit = 0
    THEN ResponseWith(op, args, FALSE, 400, "division by zero", NoData)
    ELSE LET offset == (pagination.page - 1) * pagination.limit
             sorted == Sorted(tbl, ids, idColumn, pagination.sort_by,
                              pagination.sort_order,
                              tiebreak[pagination.limit + offset])
             page == LimitOffset(sorted, pagination.limit, offset)
         IN  ResponseWith(op, args, TRUE, 200, "",
                 Paginated([k \in DOMAIN page |-> (idColumn :> page[k]) @@ tbl[page[k]]],
                           Cardinality(ids), pagination))

\* find_all_stations behind GET /api/oxygen/stations. It writes nothing; what
\* the calling client keeps of the answer (fetched) is the caller's to say.
find_all_stations(w, filters, pagination) ==
    /\ ServesRead(w)
    /\ result' = PaginatedRead("find_all_stations", <<filters, pagination>>, stations,
                               WhereStations(stations, filters), "station_id",
                               pagination)
    /\ UNCHANGED <<stations, readings, nextStationId, nextReadingId, pc, req, tiebreak, service>>

\* get_readings_for_station behind GET /api/oxygen/stations/<id>/readings
get_readings_for_station(w, sid, pagination) ==
    /\ ServesRead(w)
    /\ result' = PaginatedRead("get_readings_for_station", <<sid, pagination>>,
                               readings, WhereReadings(readings, sid), "reading_id",
                               pagination)
    /\ UNCHANGED <<stations, readings, nextStationId, nextReadingId, pc, req, paging, service>>

\* the sum of column over the rows of tbl
RECURSIVE SumOver(_, _, _)
SumOver(tbl, ids, column) ==
    IF ids = {} THEN 0
    ELSE LET i == CHOOSE x \in ids : TRUE
         IN  tbl[i][column] + SumOver(tbl, ids \ {i}, column)

\* the alerts counted by each station's own alert_threshold_low
LowLevelAlertsByThreshold(sts) ==
    Cardinality({i \in DOMAIN sts :
        LevelRatioBelow(sts[i].current_level, sts[i].capacity_liters,
                        sts[i].alert_threshold_low)})

\* COUNT(CASE WHEN (current_level / capacity_liters) < 0.2 THEN 1 END): the
\* stations whose ratio is below the constant 20 percent
LowLevelAlerts(sts) ==
    Cardinality({i \in DOMAIN sts :
        LevelRatioBelow(sts[i].current_level, sts[i].capacity_liters, 20)})

CountStatus(sts, st) == Cardinality({i \in DOMAIN sts : sts[i].status = st})

\* get_statistics: one SELECT of aggregates over oxygen_stations, returned as
\* OxygenStatusSummary (average_fill_percentage, a quotient, is left out)
get_statistics(w) ==
    /\ ServesRead(w)
    /\ result' = ResponseWith("get_statistics", <<>>, TRUE, 0, "",
                     [total_stations |-> Cardinality(DOMAIN stations),
                      operational_stations |-> CountStatus(stations, "operational"),
                      maintenance_stations |-> CountStatus(stations, "maintenance"),
                      offline_stations |-> CountStatus(stations, "offline"),
                      total_capacity |-> SumOver(stations, DOMAIN stations, "capacity_liters"),
                      total_current_level |-> SumOver(stations, DOMAIN stations, "current_level"),
                      low_level_alerts |-> LowLevelAlerts(stations)])
    /\ UNCHANGED <<stations, readings, nextStationId, nextReadingId, pc, req, paging, service>>

\* ------------------------------------------------------- main.py (FastAPI)
\* update_oxygen_level_check without the comparison against the capacity, as
\* create_reading goes about it
update_oxygen_level_unchecked(sid, lvl) ==
    /\ pc[FastApi] = "idle"
    /\ served < MaxRequests
    /\ served' = served + 1
    /\ IF sid \notin DOMAIN stations
       THEN /\ result' = Response("update_oxygen_level", FALSE, 404, "Oxygen station not found")
            /\ UNCHANGED <<pc, req>>
       ELSE /\ pc' = [pc EXCEPT ![FastApi] = "update_oxygen_level_update"]
            /\ req' = [req EXCEPT ![FastApi] =
                          [station_id |-> sid, level |-> lvl, reading_id |-> 0]]
            /\ UNCHANGED result
    /\ UNCHANGED <<stations, readings, nextStationId, nextReadingId, paging, service>>

\* update_oxygen_level, first statement: SELECT capacity_liters
update_oxygen_level_check(sid, lvl) ==
    /\ pc[FastApi] = "idle"
    /\ served < MaxRequests
    /\ served' = served + 1
    /\ IF sid \notin DOMAIN stations
       THEN /\ result' = Response("update_oxygen_level", FALSE, 404, "Oxygen station not found")
            /\ UNCHANGED <<pc, req>>
       ELSE IF lvl > stations[sid].capacity_liters
       THEN /\ result' = Response("update_oxygen_level", FALSE, 400,
                                  "Level cannot exceed capacity")
            /\ UNCHANGED <<pc, req>>
       ELSE /\ pc' = [pc EXCEPT ![FastApi] = "update_oxygen_level_update"]
            /\ req' = [req EXCEPT ![FastApi] =
                          [station_id |-> sid, level |-> lvl, reading_id |-> 0]]
            /\ UNCHANGED result
    /\ UNCHANGED <<stations, readings, nextStationId, nextReadingId, paging, service>>

SetLevelAndStatus(sts, sid, lvl) ==
    IF sid \in DOMAIN sts
    THEN [sts EXCEPT ![sid].current_level = lvl,
                     ![sid].status = DeriveStatus(lvl, sts[sid].capacity_liters,
                                                  sts[sid].alert_threshold_low,
                                                  sts[sid].alert_threshold_critical)]
    ELSE sts

\* update_oxygen_level, second statement: the UPDATE that writes the level and
\* the CASE-derived status together; a storage error is answered 500.
update_oxygen_level_update ==
    /\ pc[FastApi] = "update_oxygen_level_update"
    /\ UNCHANGED served
    /\ \/ /\ stations' = SetLevelAndStatus(stations, req[FastApi].station_id,
                                           req[FastApi].level)
          /\ result' = Response("update_oxygen_level", TRUE, 200, "")
       \/ /\ UNCHANGED stations
          /\ result' = Response("update_oxygen_level", FALSE, 500, "storage")
    /\ pc' = [pc EXCEPT ![FastApi] = "idle"]
    /\ req' = [req EXCEPT ![FastApi] = NoReq]
    /\ UNCHANGED <<readings, nextStationId, nextReadingId, paging, service>>

\* ------------------------------------------------------------------- Next
Patches ==
    [capacity_liters : {None} \cup {Some(v) : v \in PatchCapacityInputs},
     current_level : {None} \cup {Some(v) : v \in PatchLevelInputs}]

Next ==
    \/ \E w \in Workers, data \in StationData : create_station(w, data)
    \/ \E w \in Workers, sid \in RequestIds, patch \in Patches :
            update_station(w, sid, patch)
    \/ \E w \in Workers, sid \in RequestIds : delete_station(w, sid)
    \/ \E w \in Workers, sid \in RequestIds, lvl \in ReadingLevelInputs :
            create_reading_insert(w, sid, lvl)
    \/ \E w \in Workers : create_reading_update(w)
    \/ \E sid \in RequestIds, lvl \in DirectLevelInputs :
            update_oxygen_level_check(sid, lvl)
    \/ update_oxygen_level_update

Spec == Init /\ [][Next]_vars

\* ------------------------------------------------- the direct level update
\* One station, as create_station leaves it, and main.py's level update alone:
\* the status derivation over every ratio and threshold of the LevelCase sets.
InitLevel ==
    /\ \E data \in StationDataOver(NameInputs, LocationInputs, LevelCaseCapacities,
                                     LevelCaseCapacities, FlowRateInputs,
                                     StatusInputs, LevelCaseThresholds) :
          /\ data.current_level = data.capacity_liters
          /\ stations = InsertStation(EmptyTable, 1, data)
    /\ readings = EmptyTable
    /\ nextStationId = 2
    /\ nextReadingId = 1
    /\ pc = [p \in Procs |-> "idle"]
    /\ req = [p \in Procs |-> NoReq]
    /\ result = NoResult
    /\ served = 0
    /\ Serving
    /\ tiebreak = NoTiebreak
    /\ fetched = NoWalk

NextLevel ==
    \/ \E sid \in RequestIds, lvl \in LevelCaseLevels :
            update_oxygen_level_check(sid, lvl)
    \/ update_oxygen_level_update

SpecLevel == InitLevel /\ [][NextLevel]_vars

\* ------------------------------------------- stations, readings and fetches
\* the handlers that add and remove rows, and the fetch of one station
NextStore ==
    \/ \E w \in Workers, data \in StationData : create_station(w, data)
    \/ \E w \in Workers, sid \in RequestIds : find_station_by_id(w, sid)
    \/ \E w \in Workers, sid \in RequestIds : delete_station(w, sid)
    \/ \E w \in Workers, sid \in RequestIds, lvl \in ReadingLevelInputs :
            create_reading_insert(w, sid, lvl)
    \/ \E w \in Workers : create_reading_update(w)

SpecStore == Init /\ [][NextStore]_vars

\* ------------------------------------------------------ create, then fetch
\* the bodies the round trip is exercised on: names that differ in case only,
\* flow rates of two and of three decimals of either sign
RoundTripNames == NameInputs \cup {<<"o", "2">>}
RoundTripFlowRates == FlowRateInputs \cup {4505, 4507, -4505}
RoundTripData ==
    StationDataOver(RoundTripNames, LocationInputs, {500}, CreateLevelInputs,
                    RoundTripFlowRates, StatusInputs, ThresholdPairs)

NextRoundTrip ==
    \/ \E w \in Workers, data \in RoundTripData : create_station(w, data)
    \/ \E w \in Workers, sid \in RequestIds : find_station_by_id(w, sid)
    \/ \E w \in Workers, sid \in RequestIds, patch \in Patches :
            update_station(w, sid, patch)
    \/ \E w \in Workers, sid \in RequestIds : delete_station(w, sid)

SpecRoundTrip == Init /\ [][NextRoundTrip]_vars

\* ---------------------------------------------------------------- the reads
\* The tables the reads are exercised on: rows create_station, update_station
\* and create_reading can have written, none of which validates a field.
\* Station rows: full; at exactly 20 percent and one liter below it; at 12
\* percent with a stale status; of capacity 0. Two names differ in case only.
SampleRow(name, loc, cap, lvl, st) ==
    StoredRow([station_name |-> name, location |-> loc, capacity_liters |-> cap,
               current_level |-> lvl, flow_rate |-> 4500, status |-> st,
               alert_threshold_low |-> 30, alert_threshold_critical |-> 15])
SampleRows ==
    {SampleRow(<<"O", "2">>, <<"I", "C", "U">>, 500, 500, "operational"),
     SampleRow(<<"o", "2">>, <<"E", "R">>, 500, 100, "maintenance"),
     SampleRow(<<"O", "2">>, <<"I", "C", "U">>, 500, 99, "operational"),
     SampleRow(<<"O", "R">>, <<"E", "R">>, 0, 0, "offline")}
SampleTables ==
    {<<>>} \cup {<<a>> : a \in SampleRows} \cup {<<a, b>> : a, b \in SampleRows}
SampleReading(sid, lvl) == [station_id |-> sid, level_liters |-> lvl]
\* two readings of equal level for the station created last, none for another
SampleReadings(sts) ==
    IF sts = <<>> THEN <<>>
    ELSE <<SampleReading(Len(sts), 60), SampleReading(Len(sts), 60)>>
SampleIds == UNION {DOMAIN t : t \in SampleTables}

\* the orders the server may leave rows of equal sort key in
Orders == {o \in [SampleIds -> SampleIds] : \A i, j \in SampleIds : o[i] = o[j] => i = j}

\* the arguments of the reads
Filter(st, loc, thr) == [status |-> st, location |-> loc, low_level_threshold |-> thr]
NoFilter == Filter(None, None, None)
FilterInputs ==
    {NoFilter,
     Filter(Some("operational"), None, None), Filter(Some(""), None, None),
     Filter(None, Some(<<"i", "c">>), None), Filter(None, Some(<<"_", "_", "_">>), None),
     Filter(None, None, Some(20)), Filter(None, None, Some(0)),
     Filter(Some("operational"), Some(<<"i", "c">>), Some(20))}
\* <<page, limit>>
PageLimitInputs == {<<0, 1>>, <<1, 0>>, <<1, 1>>, <<2, 1>>, <<1, 2>>, <<2, 2>>}
\* <<sort_by, sort_order>>; the first is the default of the route
DefaultSort == <<"station_name", "ASC">>
StationSortInputs ==
    {DefaultSort, <<"capacity_liters", "DESC">>, <<"station_id", "DESC">>,
     <<"id", "ASC">>, <<"(SELECT 1)", "ASC">>, <<"station_id", "ASC, (SELECT 1)">>}
ReadingSortInputs ==
    {<<"reading_id", "ASC">>, <<"level_liters", "DESC">>, <<"id", "ASC">>}
Pagination(pl, srt) ==
    [page |-> pl[1], limit |-> pl[2], sort_by |-> srt[1], sort_order |-> srt[2]]
\* <<filters, pagination>> of find_all_stations: every filter on every page
\* and limit, and every sort on every page and limit
StationQueries ==
    {<<f, Pagination(pl, DefaultSort)>> : f \in FilterInputs, pl \in PageLimitInputs}
    \cup {<<NoFilter, Pagination(pl, srt)>> : pl \in PageLimitInputs, srt \in StationSortInputs}
ReadingQueries == {Pagination(pl, srt) : pl \in PageLimitInputs, srt \in ReadingSortInputs}
\* LIMIT + OFFSET of the statements the inputs lead to
Windows == {pl[1] * pl[2] : pl \in PageLimitInputs} \ {0}

InitQuery ==
    /\ stations \in SampleTables
    /\ readings = SampleReadings(stations)
    /\ nextStationId = Len(stations) + 1
    /\ nextReadingId = Len(readings) + 1
    /\ pc = [p \in Procs |-> "idle"]
    /\ req = [p \in Procs |-> NoReq]
    /\ result = NoResult
    /\ served = 0
    /\ Serving
    /\ tiebreak \in [Windows -> Orders]
    /\ fetched = NoWalk

NextQuery ==
    \/ \E w \in Workers, sid \in RequestIds : find_station_by_id(w, sid)
    \/ \E w \in Workers, query \in StationQueries :
            find_all_stations(w, query[1], query[2]) /\ UNCHANGED fetched
    \/ \E w \in Workers, sid \in RequestIds, pagination \in ReadingQueries :
            get_readings_for_station(w, sid, pagination)
    \/ \E w \in Workers : get_statistics(w)

SpecQuery == InitQuery /\ [][NextQuery]_vars

\* ------------------------------------------------- a walk through the pages
\* A client lists the stations page by page, GET /api/oxygen/stations with
\* page = 1, 2, ... and the same filter, sort and limit, up to one page past
\* total_pages, while no handler writes. fetched holds the request and, per
\* page received, the station ids on it and the total_pages it reported.
WalkFilters == {NoFilter, Filter(None, None, Some(20))}
WalkLimits == {1, 2}
WalkSorts == {DefaultSort, <<"capacity_liters", "DESC">>, <<"station_id", "DESC">>}
WalkWindows ==
    {pg * lim : pg \in 1..(Cardinality(SampleIds) + 1), lim \in WalkLimits}

InitPages ==
    /\ stations \in SampleTables
    /\ readings = SampleReadings(stations)
    /\ nextStationId = Len(stations) + 1
    /\ nextReadingId = Len(readings) + 1
    /\ pc = [p \in Procs |-> "idle"]
    /\ req = [p \in Procs |-> NoReq]
    /\ result = NoResult
    /\ served = 0
    /\ Serving
    /\ tiebreak \in [WalkWindows -> Orders]
    /\ \E f \in WalkFilters, lim \in WalkLimits, srt \in WalkSorts :
          fetched = [filters |-> f, pagination |-> Pagination(<<1, lim>>, srt),
                     pages |-> <<>>]

PageReceived(data) ==
    [ids |-> [k \in DOMAIN data.data |-> data.data[k].station_id],
     total_pages |-> data.total_pages]

\* the client asks for the page after the last one it received
next_page(w) ==
    /\ fetched # NoWalk
    /\ fetched.pages # <<>> => Len(fetched.pages) <= fetched.pages[1].total_pages
    /\ find_all_stations(w, fetched.filters,
                         [fetched.pagination EXCEPT !.page = Len(fetched.pages) + 1])
    /\ fetched' = IF result'.success
                  THEN [fetched EXCEPT !.pages = Append(@, PageReceived(result'.data))]
                  ELSE fetched

NextPages == \E w \in Workers : next_page(w)

SpecPages == InitPages /\ [][NextPages]_vars

\* -------------------------------------------------------- partial updates
\* update_station over patches that give a field, give it as 0, or leave it
\* out, on stations that have readings
FramePatches ==
    [capacity_liters : {None, Some(0)} \cup {Some(v) : v \in PatchCapacityInputs},
     current_level : {None, Some(0)} \cup {Some(v) : v \in PatchLevelInputs}]

NextPatch ==
    \/ \E w \in Workers, data \in StationData : create_station(w, data)
    \/ \E w \in Workers, sid \in RequestIds, patch \in FramePatches :
            update_station(w, sid, patch)
    \/ \E w \in Workers, sid \in RequestIds, lvl \in ReadingLevelInputs :
            create_reading_insert(w, sid, lvl)
    \/ \E w \in Workers : create_reading_update(w)

SpecPatch == Init /\ [][NextPatch]_vars

\* --------------------------------------------------------- DatabaseService
\* The module config/database.py builds db_manager, and with it the pool, when
\* it is imported; initialize_database() returns that db_manager and builds
\* nothing. The calls are made one after another (app.py calls them on its
\* main thread); calls keeps what each returned, "None" for shutdown().
Called(name, returned) == [call |-> name, returned |-> returned]

\* what a call returned, as Python writes it
Returned(b) == IF b THEN "True" ELSE "False"

\* the process after the import of config/database.py, before app.py's __main__
InitService ==
    /\ stations = EmptyTable
    /\ readings = EmptyTable
    /\ nextStationId = 1
    /\ nextReadingId = 1
    /\ pc = [p \in Procs |-> "idle"]
    /\ req = [p \in Procs |-> NoReq]
    /\ result = NoResult
    /\ served = 0
    /\ tiebreak = NoTiebreak
    /\ fetched = NoWalk
    /\ pool = TRUE
    /\ initialized = FALSE
    /\ calls = <<>>

\* DatabaseManager.test_connection of a call that found the server as
\* reachable says: get_connection raises Exception without a pool, and a
\* connection that fails raises mysql.connector.Error, which is answered False
test_connection(reachable) ==
    IF ~pool THEN "raised" ELSE IF reachable THEN "connected" ELSE "failed"

\* initialize() that sets the flag without testing the connection
initialize_untested(reachable) ==
    /\ Len(calls) < MaxCalls
    /\ initialized' = TRUE
    /\ calls' = Append(calls, Called("initialize", Returned(TRUE)))
    /\ UNCHANGED <<stations, readings, nextStationId, nextReadingId, pc, req, result,
                   served, paging, pool>>

\* DatabaseService.initialize(): True at once when the flag is set; otherwise
\* the connection test decides, and whatever it raises is answered False
initialize(reachable) ==
    /\ Len(calls) < MaxCalls
    /\ LET returned == initialized \/ test_connection(reachable) = "connected"
       IN  /\ initialized' = returned
           /\ calls' = Append(calls, Called("initialize", Returned(returned)))
    /\ UNCHANGED <<stations, readings, nextStationId, nextReadingId, pc, req, result,
                   served, paging, pool>>

\* DatabaseService.shutdown(): close_pool() drops the pool, then the flag is
\* cleared
shutdown ==
    /\ Len(calls) < MaxCalls
    /\ pool' = FALSE
    /\ initialized' = FALSE
    /\ calls' = Append(calls, Called("shutdown", "None"))
    /\ UNCHANGED <<stations, readings, nextStationId, nextReadingId, pc, req, result,
                   served, paging>>

\* DatabaseService.is_initialized()
is_initialized ==
    /\ Len(calls) < MaxCalls
    /\ calls' = Append(calls, Called("is_initialized", Returned(initialized)))
    /\ UNCHANGED <<stations, readings, nextStationId, nextReadingId, pc, req, result,
                   served, paging, pool, initialized>>

\* DatabaseService.health_check(): the connection test, whatever the flag says
health_check(reachable) ==
    /\ Len(calls) < MaxCalls
    /\ calls' = Append(calls, Called("health_check",
                                     IF test_connection(reachable) = "connected"
                                     THEN "healthy" ELSE "unhealthy"))
    /\ UNCHANGED <<stations, readings, nextStationId, nextReadingId, pc, req, result,
                   served, paging, pool, initialized>>

NextService ==
    \/ \E reachable \in BOOLEAN : initialize(reachable)
    \/ shutdown
    \/ is_initialized
    \/ \E reachable \in BOOLEAN : health_check(reachable)

SpecService == InitService /\ [][NextService]_vars

\* --------------------------------------------- the routes and their failures
\* The routes of app.py around the service methods: the body is turned into
\* the request dataclass inside the route's try block, and whatever is raised
\* there is caught by the route's `except Exception` and answered 500 with
\* str(e). An error text of the model stands for the str(e) of the exception
\* that reached the except clause.
RequiredFields == {"station_name", "location", "capacity_liters", "current_level"}

\* the body data with the field f left out
Without(data, f) == [g \in DOMAIN data \ {f} |-> data[g]]

\* the bodies POST /api/oxygen/stations is called with: complete ones (their
\* values are not looked at) and ones that lack a required field
RouteBodies == StationData \cup {Without(data, f) : data \in StationData, f \in RequiredFields}

\* levels outside [0, capacity] of every station the model creates
OutOfRangeLevelInputs == {-5, 600}
\* the bodies POST /api/oxygen/stations/<id>/readings is called with:
\* level_liters given, or left out
ReadingBodies == {None} \cup {Some(lvl) : lvl \in {140} \cup OutOfRangeLevelInputs}

\* the route with its try block removed: what CreateOxygenStation(**data)
\* raises leaves the route, and the server answers with its own error page
create_oxygen_station_uncaught(w, body) ==
    IF RequiredFields \subseteq DOMAIN body
    THEN create_station(w, body)
    ELSE /\ Serves(w)
         /\ result' = Response("unhandled", FALSE, 500, "")
         /\ UNCHANGED <<stations, readings, nextStationId, nextReadingId, pc, req, paging, service>>

\* POST /api/oxygen/stations. CreateOxygenStation(**data) raises TypeError for
\* a body without a required field: answered 500, nothing stored. Otherwise
\* create_station runs; when its INSERT is committed and the fetch of the new
\* row fails, the result carries data None, result.data.__dict__ raises in the
\* route and the answer is 500 with the station stored.
create_oxygen_station(w, body) ==
    IF RequiredFields \subseteq DOMAIN body
    THEN \/ create_station(w, body)
         \/ /\ Serves(w)
            /\ nextStationId <= MaxStations
            /\ stations' = InsertStation(stations, nextStationId, body)
            /\ nextStationId' = nextStationId + 1
            /\ result' = Response("create_station", FALSE, 500, "no data")
            /\ UNCHANGED <<readings, nextReadingId, pc, req, paging, service>>
    ELSE /\ Serves(w)
         /\ result' = Response("create_station", FALSE, 500, "missing argument")
         /\ UNCHANGED <<stations, readings, nextStationId, nextReadingId, pc, req, paging, service>>

\* GET /api/oxygen/stations/<id>: every failure of find_station_by_id, the
\* missing row and the storage error of its SELECT alike, is answered 404 with
\* the result's error text
get_oxygen_station_by_id(w, sid) ==
    \/ find_station_by_id(w, sid)
    \/ /\ ServesRead(w)
       /\ result' = ResponseWith("find_station_by_id", <<sid>>, FALSE, 404, "storage",
                                 NoData)
       /\ UNCHANGED <<stations, readings, nextStationId, nextReadingId, pc, req, paging, service>>

\* POST /api/oxygen/stations/<id>/readings: station_id comes from the path;
\* CreateOxygenReading(**data) raises TypeError for a body without
\* level_liters, answered 500. Otherwise create_reading starts.
create_oxygen_reading(w, sid, body) ==
    IF body = None
    THEN /\ Serves(w)
         /\ result' = Response("create_reading", FALSE, 500, "missing argument")
         /\ UNCHANGED <<stations, readings, nextStationId, nextReadingId, pc, req, paging, service>>
    ELSE create_reading_insert(w, sid, body[1])

NextRoutes ==
    \/ \E w \in Workers, body \in RouteBodies : create_oxygen_station(w, body)
    \/ \E w \in Workers, sid \in RequestIds : get_oxygen_station_by_id(w, sid)
    \/ \E w \in Workers, sid \in RequestIds, body \in ReadingBodies :
            create_oxygen_reading(w, sid, body)
    \/ \E w \in Workers : create_reading_update(w)

SpecRoutes == Init /\ [][NextRoutes]_vars

\* ------------------------------------------------------------------ claims
Exists(sid) == sid \in DOMAIN stations

\* the status of section 4.1 for a station row, capacity > 0
StatusOf(level, capacity, low, critical) ==
    IF level * 100 <= critical * capacity THEN "critical"
    ELSE IF level * 100 <= low * capacity THEN "low"
    ELSE "normal"

\* C1: every stored station has 0 <= current_level <= capacity.
C1_LevelWithinCapacity ==
    \A s \in DOMAIN stations :
        /\ 0 <= stations[s].current_level
        /\ stations[s].current_level <= stations[s].capacity_liters

\* C2: in every state the stored status of each station (capacity > 0) is the
\* status derived from its current_level, capacity and thresholds.
C2_StatusNeverStale ==
    \A s \in DOMAIN stations :
        stations[s].capacity_liters > 0 =>
            stations[s].status = StatusOf(stations[s].current_level,
                                          stations[s].capacity_liters,
                                          stations[s].alert_threshold_low,
                                          stations[s].alert_threshold_critical)

\* C3: record_reading is one atomic unit: every step that records a reading
\* leaves the owning station's current_level at that reading's level, so no
\* state shows the reading without the level update.
C3_ReadingAndLevelAtomic ==
    [][\A r \in DOMAIN readings' \ DOMAIN readings :
            /\ readings'[r].station_id \in DOMAIN stations'
            /\ stations'[readings'[r].station_id].current_level
                  = readings'[r].level_liters]_vars

\* C4: a successful record_reading on an existing station has added exactly one
\* reading row, holding the request's station_id and level_liters, and leaves
\* the station's current_level equal to level_liters.
C4_ReadingRecordedAndLevelSet ==
    [][\A w \in Workers :
        /\ \A sid \in RequestIds, lvl \in ReadingLevelInputs :
              (create_reading_insert(w, sid, lvl) /\ pc'[w] = "create_reading_update") =>
                  /\ Cardinality(DOMAIN readings' \ DOMAIN readings) = 1
                  /\ \A r \in DOMAIN readings : readings'[r] = readings[r]
                  /\ req'[w].reading_id \in DOMAIN readings' \ DOMAIN readings
                  /\ readings'[req'[w].reading_id] = [station_id |-> sid, level_liters |-> lvl]
        /\ (create_reading_update(w) /\ result'.success /\ req[w].station_id \in DOMAIN stations) =>
              /\ readings' = readings
              /\ req[w].reading_id \in DOMAIN readings
              /\ readings[req[w].reading_id] =
                    [station_id |-> req[w].station_id, level_liters |-> req[w].level]
              /\ stations'[req[w].station_id].current_level = req[w].level]_vars

\* C4 witness: a record_reading returned success and its station holds the
\* level of one of its readings.
C4_Witness ==
    /\ result.op = "create_reading"
    /\ result.success
    /\ \E r \in DOMAIN readings :
          /\ readings[r].station_id \in DOMAIN stations
          /\ stations[readings[r].station_id].current_level = readings[r].level_liters

\* C5: on the station capacity=500, threshold_low=30, threshold_critical=15 a
\* recorded reading of 140 leaves status "low" and one of 60 leaves "critical".
C5_ScenarioStatus ==
    [][\A w \in Workers :
        (/\ create_reading_update(w)
         /\ result'.success
         /\ req[w].station_id \in DOMAIN stations
         /\ stations[req[w].station_id].capacity_liters = 500
         /\ stations[req[w].station_id].alert_threshold_low = 30
         /\ stations[req[w].station_id].alert_threshold_critical = 15) =>
            /\ req[w].level = 140 => stations'[req[w].station_id].status = "low"
            /\ req[w].level = 60 => stations'[req[w].station_id].status = "critical"]_vars

\* C6: the status a level update writes is "critical" if level/capacity*100 <=
\* threshold_critical, else "low" if level/capacity*100 <= threshold_low, else
\* "normal" (capacity > 0; both tests inclusive, critical first).
C6_StatusWritten ==
    [][(/\ update_oxygen_level_update
        /\ result'.success
        /\ req[FastApi].station_id \in DOMAIN stations
        /\ stations[req[FastApi].station_id].capacity_liters > 0) =>
            stations'[req[FastApi].station_id].status =
                StatusOf(req[FastApi].level,
                         stations[req[FastApi].station_id].capacity_liters,
                         stations[req[FastApi].station_id].alert_threshold_low,
                         stations[req[FastApi].station_id].alert_threshold_critical)]_vars

\* C6 witness: a level update has written each derived status on a threshold
\* boundary: 15 percent of capacity 20 stored with status "critical".
C6_Witness ==
    /\ result.op = "update_oxygen_level"
    /\ result.code = 200
    /\ Exists(1)
    /\ stations[1].capacity_liters = 20
    /\ stations[1].current_level = 3
    /\ stations[1].alert_threshold_critical = 15
    /\ stations[1].status = "critical"

\* C7: a direct level update above the station's capacity is answered 400 and
\* the station keeps its current_level and status (no UPDATE is issued).
C7_OverCapacityRejected ==
    [][\A sid \in RequestIds, lvl \in DirectLevelInputs :
        (/\ update_oxygen_level_check(sid, lvl)
         /\ sid \in DOMAIN stations
         /\ lvl > stations[sid].capacity_liters) =>
            /\ result'.code = 400
            /\ result'.op = "update_oxygen_level"
            /\ stations' = stations
            /\ pc'[FastApi] = "idle"]_vars

\* C7 witness: 600 on a capacity=500 station was answered 400.
C7_Witness ==
    /\ result.op = "update_oxygen_level"
    /\ result.code = 400
    /\ pc[FastApi] = "idle"
    /\ \E s \in DOMAIN stations :
          /\ stations[s].capacity_liters = 500
          /\ stations[s].current_level = 500
          /\ stations[s].status = "normal"

\* C8: update_station rejects a patch that would leave current_level above
\* capacity (on a station that was within its capacity), and the station is
\* unchanged.
C8_PatchOverCapacityRejected ==
    [][\A w \in Workers, sid \in RequestIds, patch \in Patches :
        (/\ update_station(w, sid, patch)
         /\ sid \in DOMAIN stations
         /\ stations[sid].capacity_liters > 0
         /\ stations[sid].current_level <= stations[sid].capacity_liters
         /\ ApplyPatch(stations[sid], patch).current_level
               > ApplyPatch(stations[sid], patch).capacity_liters) =>
            /\ ~result'.success
            /\ stations' = stations]_vars

\* C9: a direct level update below 0 is answered 400 and the station is left
\* unchanged: whichever statement ends the handler, it answers 400 and writes
\* nothing.
C9_NegativeLevelRejected ==
    [][/\ \A sid \in RequestIds, lvl \in DirectLevelInputs :
            (/\ update_oxygen_level_check(sid, lvl)
             /\ sid \in DOMAIN stations
             /\ lvl < 0
             /\ pc'[FastApi] = "idle") =>
                (result'.code = 400 /\ stations' = stations)
       /\ (/\ update_oxygen_level_update
           /\ req[FastApi].station_id \in DOMAIN stations
           /\ req[FastApi].level < 0) =>
                (result'.code = 400 /\ stations' = stations)]_vars

\* C10: creating a station with capacity <= 0 is rejected and the set of
\* stations is the same before and after the request.
C10_NonPositiveCapacityRejected ==
    [][\A w \in Workers, data \in StationData :
        (create_station(w, data) /\ data.capacity_liters <= 0) =>
            /\ ~result'.success
            /\ stations' = stations]_vars

\* C11: every stored reading's station_id is the id of a station that exists,
\* in every state any interleaving of create_station, create_reading and
\* delete_station reaches (the foreign key of oxygen_readings).
C11_ReadingsReferenceStations ==
    \A r \in DOMAIN readings : readings[r].station_id \in DOMAIN stations

\* a station was deleted while the reading of another station is stored
C11_Witness ==
    /\ result.op = "delete_station"
    /\ result.success
    /\ DOMAIN readings # {}
    /\ Cardinality(DOMAIN stations) < nextStationId - 1

\* C12: readings are an append-only log: no step changes a field of a stored
\* reading, a reading disappears only in the step that deletes its station,
\* and in every other step the set of readings only grows.
C12_ReadingsAppendOnly ==
    [][/\ \A r \in DOMAIN readings \cap DOMAIN readings' : readings'[r] = readings[r]
       /\ \A r \in DOMAIN readings \ DOMAIN readings' :
             /\ readings[r].station_id \in DOMAIN stations
             /\ readings[r].station_id \notin DOMAIN stations'
       /\ DOMAIN stations \subseteq DOMAIN stations'
             => DOMAIN readings \subseteq DOMAIN readings']_vars

\* a second reading of a station is stored next to its first one, after the
\* first reading's level was written to the station
C12_Witness ==
    /\ Cardinality(DOMAIN readings) = 2
    /\ \A r \in DOMAIN readings : readings[r].station_id = 1
    /\ \E r \in DOMAIN readings : readings[r].level_liters # stations[1].current_level
    /\ \E w \in Workers : pc[w] = "create_reading_update"

\* C13: a successful delete_station(id) leaves no station id and no reading of
\* station id, and every other station and every reading of another station
\* as they were; find_station_by_id of a deleted id fails with not found.
C13_DeleteRemovesStationAndReadings ==
    [][/\ \A w \in Workers, sid \in RequestIds :
            (delete_station(w, sid) /\ result'.success) =>
                /\ sid \in DOMAIN stations
                /\ DOMAIN stations' = DOMAIN stations \ {sid}
                /\ \A i \in DOMAIN stations' : stations'[i] = stations[i]
                /\ DOMAIN readings' =
                       {r \in DOMAIN readings : readings[r].station_id # sid}
                /\ \A r \in DOMAIN readings' : readings'[r] = readings[r]
       /\ \A w \in Workers, sid \in RequestIds :
            (find_station_by_id(w, sid) /\ sid < nextStationId
                                       /\ sid \notin DOMAIN stations) =>
                /\ ~result'.success
                /\ result'.error = "Oxygen station not found"]_vars

\* station 1 and its reading were deleted, station 2 is stored, and fetching
\* station 1 was answered not found
C13_Witness ==
    /\ result.op = "find_station_by_id"
    /\ result.args = <<1>>
    /\ result.code = 404
    /\ DOMAIN stations = {2}
    /\ nextReadingId > 1
    /\ readings = EmptyTable

\* the response of a successful create_station is followed, with no write in
\* between, by a fetch of the returned id: the fetch returns what create did
FetchAfterCreate ==
    \A w \in Workers, sid \in RequestIds :
        (/\ find_station_by_id(w, sid)
         /\ result.op = "create_station"
         /\ result.success
         /\ result.data.station_id = sid) =>
            /\ result'.success
            /\ result'.data = result.data

Distance(x, y) == IF x >= y THEN x - y ELSE y - x

\* y is x rounded to two decimals, half away from zero (both in thousandths)
RoundedToHundredths(x, y) ==
    /\ y % 10 = 0
    /\ Distance(x, y) <= 5
    /\ Distance(x, y) = 5 => Distance(y, 0) > Distance(x, 0)

ReadOps ==
    {"find_station_by_id", "find_all_stations", "get_readings_for_station",
     "get_statistics"}

\* C15: find_station_by_id, find_all_stations, get_readings_for_station and
\* get_statistics leave the stations and the readings as they are, and a call
\* that repeats the call before it, with no write in between, is answered as
\* that call was.
C15_ReadsChangeNothing ==
    [][result'.op \in ReadOps =>
          /\ stations' = stations
          /\ readings' = readings
          /\ (result'.op = result.op /\ result'.args = result.args) => result' = result]_vars

\* two stations whose names differ in case only were listed by name, both on
\* one page
C15_Witness ==
    /\ result.op = "find_all_stations"
    /\ result.success
    /\ result.data.order_by = DefaultSort
    /\ Len(result.data.data) = 2
    /\ result.data.data[1].station_name # result.data.data[2].station_name
    /\ Weights(result.data.data[1].station_name) = Weights(result.data.data[2].station_name)

\* total_pages is total / limit rounded up
IsCeiling(total_pages, total, limit) ==
    /\ total_pages * limit >= total
    /\ (total_pages - 1) * limit < total

\* C16: for every filter, page and limit >= 1, find_all_stations returns as
\* total the number of all stations the filter selects, whatever the page and
\* the limit, and as total_pages the ceiling of total / limit; the same holds
\* of the reading history of a station.
C16_TotalAndTotalPages ==
    [][/\ (result'.op = "find_all_stations" /\ result'.success) =>
            LET filters == result'.args[1]
                pagination == result'.args[2]
            IN  /\ pagination.limit >= 1
                /\ result'.data.total = Cardinality(WhereStations(stations, filters))
                /\ IsCeiling(result'.data.total_pages, result'.data.total,
                             pagination.limit)
                /\ (result.op = "find_all_stations" /\ result.success
                      /\ result.args[1] = filters) =>
                        result'.data.total = result.data.total
       /\ (result'.op = "get_readings_for_station" /\ result'.success) =>
            LET sid == result'.args[1]
                pagination == result'.args[2]
            IN  /\ pagination.limit >= 1
                /\ result'.data.total = Cardinality(WhereReadings(readings, sid))
                /\ IsCeiling(result'.data.total_pages, result'.data.total,
                             pagination.limit)]_vars

\* two stations were listed with limit 1 and page 2: total 2, total_pages 2
C16_Witness ==
    /\ result.op = "find_all_stations"
    /\ result.success
    /\ result.data.limit = 1
    /\ result.data.page = 2
    /\ result.data.total = 2
    /\ result.data.total_pages = 2
    /\ Len(result.data.data) = 1

\* pat occurs in str, compared without regard to case
IsSubstring(pat, str) ==
    \E k \in 0..(Len(str) - Len(pat)) :
        Weights(SubSeq(str, k + 1, k + Len(pat))) = Weights(pat)

\* the stations that satisfy every filter field that was supplied
Satisfying(sts, filters) ==
    {i \in DOMAIN sts :
        /\ filters.status # None => sts[i].status = filters.status[1]
        /\ filters.location # None => IsSubstring(filters.location[1], sts[i].location)
        /\ filters.low_level_threshold # None =>
               /\ sts[i].capacity_liters # 0
               /\ IF sts[i].capacity_liters > 0
                  THEN sts[i].current_level * 100 <
                           filters.low_level_threshold[1] * sts[i].capacity_liters
                  ELSE sts[i].current_level * 100 >
                           filters.low_level_threshold[1] * sts[i].capacity_liters}

\* C18: find_all_stations returns exactly the stations that satisfy every
\* filter field that was supplied (status equal, location containing the
\* text, current_level / capacity strictly below the percentage); a field
\* that was left out excludes nothing, and a supplied percentage is applied.
C18_FiltersApplied ==
    (result.op = "find_all_stations" /\ result.success) =>
        /\ result.data.total = Cardinality(Satisfying(stations, result.args[1]))
        /\ \A k \in DOMAIN result.data.data :
              result.data.data[k].station_id \in Satisfying(stations, result.args[1])

\* C19: the sort column and the direction of the statement find_all_stations
\* and get_readings_for_station execute are members of a fixed allow-list (the
\* columns of the table, ASC and DESC); a sort_by or sort_order of the caller
\* outside the list does not reach the statement.
C19_SortFromAllowList ==
    /\ (result.op = "find_all_stations" /\ result.success) =>
            /\ result.data.order_by[1] \in StationColumns
            /\ result.data.order_by[2] \in {"ASC", "DESC"}
    /\ (result.op = "get_readings_for_station" /\ result.success) =>
            /\ result.data.order_by[1] \in ReadingColumns
            /\ result.data.order_by[2] \in {"ASC", "DESC"}

\* C20: low_level_alerts of get_statistics is the number of stations whose
\* current_level / capacity is strictly below 0.20, whatever their
\* alert_threshold_low and their status.
C20_LowLevelAlertCount ==
    result.op = "get_statistics" =>
        result.data.low_level_alerts =
            Cardinality({i \in DOMAIN stations :
                \/ stations[i].capacity_liters > 0
                      /\ stations[i].current_level * 5 < stations[i].capacity_liters
                \/ stations[i].capacity_liters < 0
                      /\ stations[i].current_level * 5 > stations[i].capacity_liters})

\* of a station at exactly 20 percent, which is below its own threshold of 30
\* percent, and a station one liter lower, the statistics count the second
C20_Witness ==
    /\ result.op = "get_statistics"
    /\ result.data.low_level_alerts = 1
    /\ Len(stations) = 2
    /\ stations[1].current_level * 5 = stations[1].capacity_liters
    /\ stations[1].capacity_liters > 0
    /\ stations[1].current_level * 100 <
           stations[1].alert_threshold_low * stations[1].capacity_liters
    /\ stations[2].current_level * 5 < stations[2].capacity_liters

\* the station ids of the pages 1..n of the walk, one after the other
RECURSIVE Concatenated(_, _)
Concatenated(pages, n) ==
    IF n = 0 THEN <<>> ELSE Concatenated(pages, n - 1) \o pages[n].ids

\* the client has received the page after total_pages
WalkDone ==
    /\ fetched # NoWalk
    /\ fetched.pages # <<>>
    /\ Len(fetched.pages) = fetched.pages[1].total_pages + 1

\* C17: with no write going on and filter, sort and limit >= 1 fixed, the
\* pages 1..total_pages one after the other hold every selected station
\* exactly once, and a page past total_pages is empty.
C17_PagesPartitionTheListing ==
    WalkDone =>
        LET n == fetched.pages[1].total_pages
            ids == Concatenated(fetched.pages, n)
        IN  /\ {ids[k] : k \in DOMAIN ids} = WhereStations(stations, fetched.filters)
            /\ \A j, k \in DOMAIN ids : ids[j] = ids[k] => j = k
            /\ fetched.pages[n + 1].ids = <<>>

\* the operations behind the routes of app.py
RouteOps == {"create_station", "find_station_by_id", "create_reading"}

\* C21: every failure inside a station or reading operation (storage error,
\* constraint violation, missing row, malformed body) reaches the caller as a
\* structured result, success false with an error message, under an HTTP error
\* status; no exception leaves the route.
C21_FailuresAreStructured ==
    \/ result = NoResult
    \/ /\ result.op \in RouteOps
       /\ result.success => result.error = ""
       /\ ~result.success => result.error # "" /\ result.code \in {400, 404, 500}

\* a body without a required field has been answered while a station is stored
C21_Witness ==
    /\ result = Response("create_station", FALSE, 500, "missing argument")
    /\ stations # EmptyTable

\* C22: a request naming a station_id that does not exist answers 404, the
\* fetch of the station and the ingestion of a reading for it alike.
C22_MissingStationIs404 ==
    [][\A w \in Workers, sid \in RequestIds :
          ~Exists(sid) =>
             /\ get_oxygen_station_by_id(w, sid) => result'.code = 404
             /\ \A lvl \in {140} \cup OutOfRangeLevelInputs :
                   create_oxygen_reading(w, sid, Some(lvl)) => result'.code = 404]_vars

\* a body POST /api/oxygen/stations must refuse: a required field is missing,
\* or the capacity is not positive
InvalidBody(body) ==
    \/ ~(RequiredFields \subseteq DOMAIN body)
    \/ body.capacity_liters <= 0

\* C23: a create-station request whose body lacks a required field or carries
\* an invalid one answers 400 with a validation error, and no station is
\* created.
C23_InvalidBodyIs400 ==
    [][\A w \in Workers, body \in RouteBodies :
          (create_oxygen_station(w, body) /\ InvalidBody(body)) =>
             /\ ~result'.success
             /\ result'.code = 400
             /\ stations' = stations]_vars

\* what str(e) is of an error the storage raised
StorageErrorTexts == {"storage", "foreign key"}

\* the step of worker w is a handler returning from a failed statement
StorageFailure(w) ==
    \/ \E data \in StationData : create_station(w, data) /\ ~result'.success
    \/ \E sid \in RequestIds, body \in ReadingBodies \ {None} :
          create_oxygen_reading(w, sid, body) /\ pc'[w] = "idle"
    \/ create_reading_update(w) /\ ~result'.success

\* C24: a storage error during a station or reading operation answers 500
\* with a generic message; the text of the storage error is not returned.
C24_StorageErrorIsGeneric500 ==
    [][\A w \in Workers :
          StorageFailure(w) =>
             /\ result'.code = 500
             /\ result'.error \notin StorageErrorTexts]_vars

\* the level is outside [0, capacity] of the row
OutOfRange(lvl, row) == lvl < 0 \/ lvl > row.capacity_liters

\* C25: create_reading does not check the level against the capacity. A
\* reading whose level_liters is above the station's capacity or below 0 is
\* refused by a storage error only: its row is appended, and the station's
\* current_level is set to that level.
C25_OutOfRangeReadingAccepted ==
    [][\A w \in Workers :
          /\ \A sid \in DOMAIN stations, lvl \in OutOfRangeLevelInputs :
                (create_oxygen_reading(w, sid, Some(lvl)) /\ OutOfRange(lvl, stations[sid])) =>
                   \/ /\ pc'[w] = "create_reading_update"
                      /\ readings' = InsertReading(readings, nextReadingId, sid, lvl)
                   \/ /\ pc'[w] = "idle"
                      /\ result'.error = "storage"
          /\ (/\ create_reading_update(w)
              /\ result'.success
              /\ Exists(req[w].station_id)
              /\ OutOfRange(req[w].level, stations[req[w].station_id])) =>
                 /\ result'.code = 201
                 /\ stations'[req[w].station_id].current_level = req[w].level
                 /\ readings'[req[w].reading_id].level_liters = req[w].level]_vars

\* a reading above the capacity and one below 0 are stored for a station of
\* capacity 500, and the station's level is the negative one
C25_Witness ==
    /\ result = Response("create_reading", TRUE, 201, "")
    /\ \E sid \in DOMAIN stations :
          /\ stations[sid].capacity_liters = 500
          /\ stations[sid].current_level < 0
          /\ \E r \in DOMAIN readings :
                readings[r].station_id = sid /\ readings[r].level_liters > 500
          /\ \E r \in DOMAIN readings :
                readings[r].station_id = sid /\ readings[r].level_liters < 0

\* worker w is between the two statements of create_reading for station sid
InFlight(w, sid) == pc[w] = "create_reading_update" /\ req[w].station_id = sid

\* C26: of the create_reading calls running for one station, each UPDATE that
\* commits sets current_level to the level_liters of its own reading, whatever
\* the other calls in flight have inserted: the level that stays is the one of
\* the UPDATE committed last, a level of one of the station's readings.
C26_LastCommittedUpdateWins ==
    [][\A w \in Workers :
          (/\ create_reading_update(w)
           /\ result'.success
           /\ Exists(req[w].station_id)) =>
              LET sid == req[w].station_id
              IN  /\ stations'[sid].current_level = readings[req[w].reading_id].level_liters
                  /\ \A v \in Workers \ {w} :
                        InFlight(v, sid) =>
                           /\ pc'[v] = pc[v] /\ req'[v] = req[v]
                           /\ stations'[sid].current_level = req[w].level]_vars

\* two calls ran concurrently for one station: the UPDATE of the reading of
\* greater reading_id is committed, and the one of the lesser reading_id, of
\* another level, is still to commit
C26_Witness ==
    \E w \in Workers, sid \in DOMAIN stations, r \in DOMAIN readings :
        /\ InFlight(w, sid)
        /\ req[w].reading_id < r
        /\ readings[r].station_id = sid
        /\ readings[r].level_liters # req[w].level
        /\ stations[sid].current_level = readings[r].level_liters
        /\ stations[sid].current_level \notin CreateLevelInputs
        /\ result = Response("create_reading", TRUE, 201, "")

\* the value of field f that patch gives, None when it gives none
Given(patch, f) == IF f \in DOMAIN patch THEN patch[f] ELSE None

\* C27: a successful update_station(id, patch) changes, on station id, exactly
\* the fields the patch gives (a given 0 included) and leaves its other
\* fields, every other station and all readings as they were; a patch that
\* gives no field is refused with "No fields to update" and changes nothing.
C27_UpdateChangesPatchedFieldsOnly ==
    [][\A w \in Workers, sid \in RequestIds, patch \in FramePatches :
          update_station(w, sid, patch) =>
             /\ readings' = readings
             /\ PatchIsEmpty(patch) =>
                   /\ result' = Response("update_station", FALSE, 0, "No fields to update")
                   /\ stations' = stations
             /\ result'.success =>
                   /\ Exists(sid)
                   /\ DOMAIN stations' = DOMAIN stations
                   /\ \A other \in DOMAIN stations \ {sid} : stations'[other] = stations[other]
                   /\ \A f \in DOMAIN stations[sid] :
                         stations'[sid][f] = IF Given(patch, f) = None
                                             THEN stations[sid][f]
                                             ELSE Given(patch, f)[1]]_vars

\* a patch giving current_level 0 and no capacity was applied to one of two
\* stations while a reading is stored
C27_Witness ==
    /\ result = Response("update_station", TRUE, 0, "")
    /\ readings # EmptyTable
    /\ \E sid \in DOMAIN stations, other \in DOMAIN stations :
          /\ sid # other
          /\ stations[sid].current_level = 0
          /\ stations[sid].capacity_liters \in CapacityInputs

\* C28: create_reading for a station_id that names no station returns a
\* failure and changes nothing: no reading row is added and no station's
\* row, its current_level included, changes.
C28_ReadingForMissingStationRefused ==
    [][\A w \in Workers, sid \in RequestIds, body \in ReadingBodies \ {None} :
          (create_oxygen_reading(w, sid, body) /\ ~Exists(sid)) =>
             /\ result'.op = "create_reading"
             /\ ~result'.success
             /\ pc'[w] = "idle"
             /\ readings' = readings
             /\ stations' = stations]_vars

\* with a station and a reading stored, a reading for a station_id that names
\* no station has been refused by the foreign key
C28_Witness ==
    /\ result = Response("create_reading", FALSE, 400, "foreign key")
    /\ stations # EmptyTable
    /\ readings # EmptyTable
    /\ \A w \in Workers : pc[w] = "idle"

LastCall == calls'[Len(calls')]

\* C30: over every sequence of calls of DatabaseService, is_initialized() is
\* True only while the pool is present. initialize() sets the flag only after
\* a connection test that succeeded on a pool, answers True while the flag is
\* set and never touches the pool; shutdown() leaves the flag cleared.
C30_InitializedOnlyWithPool ==
    /\ [](initialized => pool)
    /\ [][/\ LastCall.call = "initialize" =>
                /\ pool' = pool
                /\ initialized => LastCall.returned = "True" /\ initialized'
                /\ (~initialized /\ initialized') => pool /\ LastCall.returned = "True"
                /\ LastCall.returned = Returned(initialized')
          /\ LastCall.call = "shutdown" => ~initialized' /\ ~pool'
          /\ LastCall.call = "is_initialized" =>
                /\ LastCall.returned = Returned(initialized)
                /\ LastCall.returned = "True" => pool
                /\ UNCHANGED <<pool, initialized>>]_calls

\* initialize() returned True twice, shutdown() followed, and is_initialized()
\* then returned False with the pool gone
C30_Witness ==
    /\ calls = <<Called("initialize", "True"), Called("initialize", "True"),
                 Called("shutdown", "None"), Called("is_initialized", "False")>>
    /\ ~pool
    /\ ~initialized

====
